---- MODULE Spec2Model ----
(***************************************************************************)
(* Model of hw2/cs285/agents/pg_agent.py: PGAgent, the policy-gradient     *)
(* agent that turns sampled trajectories into Q-values and advantages and  *)
(* dispatches them to the actor and the critic.                            *)
(*                                                                         *)
(* Numbers are exact rationals <<n, d>> (d >= 1, lowest terms): the        *)
(* arithmetic of the code is modelled without floating-point rounding.     *)
(* NumPy arrays are records [shape, dtype, data].  The actor, the critic   *)
(* and pytorch_util are not part of the file: the critic's forward pass is *)
(* the sequence `values` (one value per flat observation), the metrics the *)
(* two update calls return are `actor_metrics` and `critic_metrics`.       *)
(***************************************************************************)
EXTENDS Integers, Sequences, FiniteSets, TLC

\* Largest batch size N (total number of timesteps over all trajectories).
MaxN == 3
\* Largest baseline_gradient_steps.
MaxSteps == 2

None == "None"
Unbound == "unbound"

---------------------------------------------------------------------------
(* Exact rational arithmetic.                                              *)

Abs(x) == IF x < 0 THEN -x ELSE x

RECURSIVE GCD(_, _)
GCD(a, b) == IF b = 0 THEN a ELSE GCD(b, a % b)

Norm(n, d) ==
    LET g == GCD(Abs(n), d)
    IN  <<n \div g, d \div g>>

Zero == <<0, 1>>
One == <<1, 1>>
Half == <<1, 2>>
FromInt(k) == <<k, 1>>

RAdd(a, b) == Norm(a[1] * b[2] + b[1] * a[2], a[2] * b[2])
RSub(a, b) == Norm(a[1] * b[2] - b[1] * a[2], a[2] * b[2])
RMul(a, b) == Norm(a[1] * b[1], a[2] * b[2])
RDivInt(a, k) == Norm(a[1], a[2] * k)

RECURSIVE RPow(_, _)
RPow(g, i) == IF i = 0 THEN One ELSE RMul(g, RPow(g, i - 1))

---------------------------------------------------------------------------
(* Python / NumPy helpers.                                                 *)

\* sum(xs): left fold from 0.
RECURSIVE PySum(_, _)
PySum(xs, k) == IF k = 0 THEN Zero ELSE RAdd(PySum(xs, k - 1), xs[k])

\* [item for sublist in lists for item in sublist]
RECURSIVE Flat(_)
Flat(lists) ==
    IF lists = <<>> THEN <<>> ELSE Head(lists) \o Flat(Tail(lists))

\* d1.update(d2) on dicts modelled as functions: keys of d2 override.
DictUpdate(d1, d2) ==
    [k \in DOMAIN d1 \cup DOMAIN d2 |-> IF k \in DOMAIN d2 THEN d2[k] ELSE d1[k]]

\* np.array(items) for a list of scalars.
Array1D(items) == [shape |-> <<Len(items)>>, dtype |-> "float", data |-> items]

\* The outcomes of np.array(items) for a list of lists.  Equal lengths give a
\* 2-D array.  Unequal lengths are a ragged nested sequence: NumPy >= 1.24
\* raises ValueError, older releases build a 1-D array of dtype object.
ArrayOfListsOutcomes(items) ==
    IF \A a, b \in DOMAIN items : Len(items[a]) = Len(items[b])
    THEN {[err |-> "none",
           arr |-> [shape |-> IF items = <<>> THEN <<0>>
                              ELSE <<Len(items), Len(items[1])>>,
                    dtype |-> "float", data |-> items]]}
    ELSE {[err |-> "ValueError", arr |-> Unbound],
          [err |-> "none",
           arr |-> [shape |-> <<Len(items)>>, dtype |-> "object", data |-> items]]}

\* An elementwise operation on one entry of `arr`: a scalar of a 1-D float
\* array, a row of a 2-D array.
DivEntry(arr, x, k) ==
    IF Len(arr.shape) = 1 THEN RDivInt(x, k)
    ELSE [j \in DOMAIN x |-> RDivInt(x[j], k)]

---------------------------------------------------------------------------
(* PGAgent                                                                 *)

\* PGAgent.__init__: the attributes it sets from its arguments.
__init__(args) ==
    [critic |-> IF args.use_baseline THEN "ValueCritic" ELSE None,
     baseline_gradient_steps |->
         IF args.use_baseline THEN args.baseline_gradient_steps ELSE Unbound,
     gamma |-> args.gamma,
     use_reward_to_go |-> args.use_reward_to_go,
     gae_lambda |-> args.gae_lambda,
     normalize_advantages |-> args.normalize_advantages]

\* PGAgent._discounted_return
_discounted_return(self, rewards) ==
    LET discount_rewards ==
            [i \in 1..Len(rewards) |-> RMul(RPow(self.gamma, i - 1), rewards[i])]
        _sum == PySum(discount_rewards, Len(discount_rewards))
    IN  [i \in 1..Len(rewards) |-> _sum]

\* Mutant of Cumulative: the discount is applied to the current reward too.
RECURSIVE Cumulative_DiscountAll(_, _, _)
Cumulative_DiscountAll(self, rewards, i) ==
    IF i > Len(rewards) THEN Zero
    ELSE RMul(self.gamma, RAdd(rewards[i], Cumulative_DiscountAll(self, rewards, i + 1)))

\* The value of `cumulative` after the backward loop has processed index i.
RECURSIVE Cumulative(_, _, _)
Cumulative(self, rewards, i) ==
    IF i > Len(rewards) THEN Zero
    ELSE RAdd(rewards[i], RMul(self.gamma, Cumulative(self, rewards, i + 1)))

\* PGAgent._discounted_reward_to_go
_discounted_reward_to_go(self, rewards) ==
    [i \in 1..Len(rewards) |-> Cumulative(self, rewards, i)]

\* The entry _calculate_q_vals appends for one trajectory in full-return mode.
FullReturnEntry(self, reward) ==
    LET total_discounted_return == _discounted_return(self, reward)
    IN  [t \in 1..Len(reward) |-> total_discounted_return]

\* PGAgent._calculate_q_vals
_calculate_q_vals(self, rewards) ==
    IF ~self.use_reward_to_go
    THEN [tr \in 1..Len(rewards) |-> FullReturnEntry(self, rewards[tr])]
    ELSE [tr \in 1..Len(rewards) |-> _discounted_reward_to_go(self, rewards[tr])]

\* The flattening of q_values in update: the items are scalars in
\* reward-to-go mode and lists in full-return mode.
FlattenQOutcomes(self, q_values) ==
    IF self.use_reward_to_go
    THEN {[err |-> "none", arr |-> Array1D(Flat(q_values))]}
    ELSE ArrayOfListsOutcomes(Flat(q_values))

\* values[j] on the critic's output: IndexError past the end.
ValuesIndexError(values, terminals) ==
    \E i \in 1..Len(terminals) : terminals[i] # 1 /\ i + 1 > Len(values)

\* Mutant of GAEAdvantage: the recursion resets at the end of the batch only,
\* not at the terminals inside it.
RECURSIVE GAEAdvantage_NoReset(_, _, _, _, _)
GAEAdvantage_NoReset(self, rewards, values, terminals, i) ==
    IF i > Len(rewards) THEN Zero
    ELSE IF i = Len(rewards)
    THEN RSub(rewards[i], values[i])
    ELSE LET delta_T == RSub(RAdd(rewards[i], RMul(self.gamma, values[i + 1])),
                             values[i])
         IN  RAdd(delta_T,
                  RMul(RMul(self.gamma, self.gae_lambda),
                       GAEAdvantage_NoReset(self, rewards, values, terminals, i + 1)))

\* Mutant of GAEAdvantage: the TD residual lacks the lookahead gamma * V(s').
RECURSIVE GAEAdvantage_NoLookahead(_, _, _, _, _)
GAEAdvantage_NoLookahead(self, rewards, values, terminals, i) ==
    IF i > Len(rewards) THEN Zero
    ELSE IF terminals[i] = 1
    THEN RSub(rewards[i], values[i])
    ELSE LET delta_T == RSub(rewards[i], values[i])
         IN  RAdd(delta_T,
                  RMul(RMul(self.gamma, self.gae_lambda),
                       GAEAdvantage_NoLookahead(self, rewards, values, terminals, i + 1)))

\* advantages[i] of the GAE loop (the dummy entry past the end is 0).
RECURSIVE GAEAdvantage(_, _, _, _, _)
GAEAdvantage(self, rewards, values, terminals, i) ==
    IF i > Len(rewards) THEN Zero
    ELSE IF terminals[i] = 1
    THEN RSub(rewards[i], values[i])
    ELSE LET delta_T == RSub(RAdd(rewards[i], RMul(self.gamma, values[i + 1])),
                             values[i])
         IN  RAdd(delta_T,
                  RMul(RMul(self.gamma, self.gae_lambda),
                       GAEAdvantage(self, rewards, values, terminals, i + 1)))

\* Mutant of NormalizeLoop: ind is not reset after a terminal.
RECURSIVE NormalizeLoop_NoReset(_, _, _, _, _)
NormalizeLoop_NoReset(arr, terminals, k, ind, adv_ind) ==
    IF k > Len(terminals) THEN arr
    ELSE IF terminals[k] = 1
    THEN LET divided ==
                 [arr EXCEPT !.data =
                     [j \in DOMAIN arr.data |->
                         IF j > adv_ind /\ j <= adv_ind + ind
                         THEN DivEntry(arr, arr.data[j], ind)
                         ELSE arr.data[j]]]
         IN  NormalizeLoop_NoReset(divided, terminals, k + 1, ind + 1, adv_ind + ind)
    ELSE NormalizeLoop_NoReset(arr, terminals, k + 1, ind + 1, adv_ind)

\* The normalisation loop of _estimate_advantage, from the k-th terminal on.
RECURSIVE NormalizeLoop(_, _, _, _, _)
NormalizeLoop(arr, terminals, k, ind, adv_ind) ==
    IF k > Len(terminals) THEN arr
    ELSE IF terminals[k] = 1
    THEN LET divided ==
                 [arr EXCEPT !.data =
                     [j \in DOMAIN arr.data |->
                         IF j > adv_ind /\ j <= adv_ind + ind
                         THEN DivEntry(arr, arr.data[j], ind)
                         ELSE arr.data[j]]]
         IN  NormalizeLoop(divided, terminals, k + 1, 1, adv_ind + ind)
    ELSE NormalizeLoop(arr, terminals, k + 1, ind + 1, adv_ind)

\* Lines 159-171: the optional normalisation.  A list entry of an object
\* array cannot be divided.
Normalize(self, res, terminals) ==
    IF res.err # "none" \/ ~self.normalize_advantages THEN res
    ELSE IF res.advantages.dtype = "object" /\ \E k \in DOMAIN terminals : terminals[k] = 1
    THEN [err |-> "TypeError", advantages |-> Unbound]
    ELSE [err |-> "none",
          advantages |-> NormalizeLoop(res.advantages, terminals, 1, 1, 0)]

\* Lines 126-157: the advantages with a baseline, before normalisation.
BaselineAdvantage(self, rewards, q_values, terminals, values) ==
    IF <<Len(values)>> # q_values.shape
    THEN [err |-> "AssertionError", advantages |-> Unbound]
    ELSE IF self.gae_lambda = None
    THEN IF q_values.dtype = "object"
         THEN [err |-> "TypeError", advantages |-> Unbound]
         ELSE [err |-> "none",
               advantages |->
                   Array1D([i \in 1..Len(values) |-> RSub(q_values.data[i], values[i])])]
    ELSE IF ValuesIndexError(values, terminals)
    THEN [err |-> "IndexError", advantages |-> Unbound]
    ELSE [err |-> "none",
          advantages |->
              Array1D([i \in 1..Len(rewards) |->
                          GAEAdvantage(self, rewards, values, terminals, i)])]

\* Mutant of RawAdvantage: the no-baseline case is taken only when
\* gae_lambda is None as well, so GAE without a critic calls self.critic.
RawAdvantage_GaeFirst(self, rewards, q_values, terminals, values) ==
    IF self.critic = None /\ self.gae_lambda = None
    THEN [err |-> "none", advantages |-> q_values]
    ELSE IF self.critic = None
    THEN [err |-> "TypeError", advantages |-> Unbound]
    ELSE BaselineAdvantage(self, rewards, q_values, terminals, values)

\* Lines 122-157: the advantages before normalisation.
RawAdvantage(self, rewards, q_values, terminals, values) ==
    IF self.critic = None
    THEN [err |-> "none", advantages |-> q_values]
    ELSE BaselineAdvantage(self, rewards, q_values, terminals, values)

\* PGAgent._estimate_advantage
_estimate_advantage(self, rewards, q_values, terminals, values) ==
    Normalize(self, RawAdvantage(self, rewards, q_values, terminals, values), terminals)

---------------------------------------------------------------------------
(* The state: the agent, the arguments of one update call, what the        *)
(* collaborators answer, and the locals of update.                         *)

VARIABLES
    self,            \* the PGAgent's attributes
    rewards,         \* update's argument: one reward list per trajectory
    terminals,       \* update's argument: one terminal list per trajectory
    values,          \* what self.critic(obs) answers for the flattened obs
    actor_metrics,   \* what self.actor.update answers
    critic_metrics,  \* what the successive self.critic.update calls answer
    pc,              \* the position in update
    q_values,        \* the local q_values: a list of lists, then an array
    batch,           \* the flattened obs, actions, rewards, terminals
    advantages,      \* the local advantages
    info,            \* the local info
    critic_info,     \* the local critic_info: <<>> while unbound, else <<dict>>
    i,               \* the critic loop's counter
    calls,           \* the calls made to the actor and the critic, in order
    err              \* the exception update raised, "none" so far

vars == <<self, rewards, terminals, values, actor_metrics, critic_metrics, pc,
          q_values, batch, advantages, info, critic_info, i, calls, err>>

inputs == <<self, rewards, terminals, values, actor_metrics, critic_metrics>>

\* The observations and actions of trajectory tr: only their identity and
\* order matter here.
ObsOf(rews) ==
    [tr \in 1..Len(rews) |-> [t \in 1..Len(rews[tr]) |-> [kind |-> "ob", tr |-> tr, t |-> t]]]
ActionsOf(rews) ==
    [tr \in 1..Len(rews) |-> [t \in 1..Len(rews[tr]) |-> [kind |-> "ac", tr |-> tr, t |-> t]]]

RECURSIVE SumTo(_, _)
SumTo(shape, k) == IF k = 0 THEN 0 ELSE SumTo(shape, k - 1) + shape[k]

\* The trajectory lengths of a batch of at most MaxN timesteps.
Shapes ==
    {s \in UNION {[1..m -> 1..MaxN] : m \in 1..MaxN} : SumTo(s, Len(s)) <= MaxN}

Split(flat, shape) ==
    [tr \in 1..Len(shape) |-> [t \in 1..shape[tr] |-> flat[SumTo(shape, tr - 1) + t]]]

\* terminals[tr][t] is 1 only at the last step of a trajectory; a trajectory
\* that was cut off has no 1 at all.
TerminalsOf(shape, ended) ==
    [tr \in 1..Len(shape) |->
        [t \in 1..shape[tr] |-> IF t = shape[tr] /\ ended[tr] THEN 1 ELSE 0]]

Gammas == {Zero, Half, One}
Lambdas == {None, Zero, Half, One}

ArgSet(StepSet, GammaSet, LambdaSet) ==
    [use_baseline : BOOLEAN, use_reward_to_go : BOOLEAN,
     baseline_gradient_steps : StepSet, gae_lambda : LambdaSet,
     normalize_advantages : BOOLEAN, gamma : GammaSet]

ActorMetricChoices == {"Actor Loss" :> 1}
CriticMetricChoices == {"Baseline Loss" :> 1, ("Baseline Loss" :> 2) @@ ("Grad Norm" :> 3)}

InitWith(Args, RewardSet, ValueSet, CriticChoices) ==
    /\ \E args \in Args :
         /\ self = __init__(args)
         /\ \E shape \in Shapes :
              LET N == SumTo(shape, Len(shape))
              IN  /\ \E f \in [1..N -> RewardSet] : rewards = Split(f, shape)
                  /\ \E ended \in [1..Len(shape) -> BOOLEAN] :
                       terminals = TerminalsOf(shape, ended)
                  /\ values \in (IF args.use_baseline THEN [1..N -> ValueSet] ELSE {<<>>})
         /\ critic_metrics \in
              [1..(IF args.use_baseline THEN args.baseline_gradient_steps ELSE 0)
                  -> CriticChoices]
    /\ actor_metrics \in ActorMetricChoices
    /\ pc = "calculate_q_vals"
    /\ q_values = <<>>
    /\ batch = <<>>
    /\ advantages = <<>>
    /\ info = <<>>
    /\ critic_info = <<>>
    /\ i = 0
    /\ calls = <<>>
    /\ err = "none"

\* Every configuration and every sequence of critic answers, on batches whose
\* numbers are all alike.
Init ==
    InitWith(ArgSet(0..MaxSteps, {Half}, Lambdas), {One}, {Zero}, CriticMetricChoices)

\* Every estimator configuration with gae_lambda in {None, 1/2, 1}, on
\* batches of varied rewards and values, with one critic step.
InitNum ==
    InitWith(ArgSet({1}, Gammas, {None, Half, One}), {One, FromInt(2)}, {Zero, One},
             {"Baseline Loss" :> 1})

\* Every estimator configuration on batches of equal rewards and varied
\* values, with one critic step.
InitIso ==
    InitWith(ArgSet({1}, Gammas, Lambdas), {One}, {Zero, One}, {"Baseline Loss" :> 1})

---------------------------------------------------------------------------
(* update, statement by statement.                                         *)

Raise(e) ==
    /\ err' = e
    /\ pc' = "error"

\* Line 65.
CalculateQVals ==
    /\ pc = "calculate_q_vals"
    /\ q_values' = _calculate_q_vals(self, rewards)
    /\ pc' = "flatten"
    /\ UNCHANGED <<inputs, batch, advantages, info, critic_info, i, calls, err>>

\* Lines 70-74.
Flatten ==
    /\ pc = "flatten"
    /\ \E out \in FlattenQOutcomes(self, q_values) :
         IF out.err = "none"
         THEN /\ batch' = [obs |-> Flat(ObsOf(rewards)),
                           actions |-> Flat(ActionsOf(rewards)),
                           rewards |-> Flat(rewards),
                           terminals |-> Flat(terminals)]
              /\ q_values' = out.arr
              /\ pc' = "estimate_advantage"
              /\ UNCHANGED err
         ELSE /\ Raise(out.err)
              /\ UNCHANGED <<batch, q_values>>
    /\ UNCHANGED <<inputs, advantages, info, critic_info, i, calls>>

\* Lines 76-78.  The advantages are built from q_values.copy() or from a
\* fresh array: normalising them leaves q_values as it is.
EstimateAdvantage ==
    /\ pc = "estimate_advantage"
    /\ LET res == _estimate_advantage(self, batch.rewards, q_values,
                                      batch.terminals, values)
       IN  IF res.err = "none"
           THEN /\ advantages' = res.advantages
                /\ pc' = "actor_update"
                /\ UNCHANGED err
           ELSE /\ Raise(res.err)
                /\ UNCHANGED advantages
    /\ UNCHANGED <<inputs, q_values, batch, info, critic_info, i, calls>>

\* Line 82.
ActorUpdate ==
    /\ pc = "actor_update"
    /\ calls' = Append(calls, [op |-> "actor.update", obs |-> batch.obs,
                               actions |-> batch.actions, advantages |-> advantages])
    /\ info' = actor_metrics
    /\ pc' = IF self.critic # None THEN "critic_loop" ELSE "return"
    /\ UNCHANGED <<inputs, q_values, batch, advantages, critic_info, i, err>>

\* Mutant of CriticTargets: the critic is fitted to the advantages.
CriticTargets_Advantages == advantages

\* The second argument of self.critic.update on line 88.
CriticTargets == q_values

\* Lines 87-88: one iteration of the loop.
CriticUpdate ==
    /\ pc = "critic_loop"
    /\ i < self.baseline_gradient_steps
    /\ calls' = Append(calls, [op |-> "critic.update", obs |-> batch.obs,
                               targets |-> CriticTargets])
    /\ critic_info' = <<critic_metrics[i + 1]>>
    /\ i' = i + 1
    /\ UNCHANGED <<inputs, pc, q_values, batch, advantages, info, err>>

\* Line 89, after the loop: critic_info is unbound if the loop never ran.
MergeCriticInfo ==
    /\ pc = "critic_loop"
    /\ i >= self.baseline_gradient_steps
    /\ IF critic_info = <<>>
       THEN /\ Raise("UnboundLocalError")
            /\ UNCHANGED info
       ELSE /\ info' = DictUpdate(info, critic_info[1])
            /\ pc' = "return"
            /\ UNCHANGED err
    /\ UNCHANGED <<inputs, q_values, batch, advantages, critic_info, i, calls>>

\* Line 91.
Return ==
    /\ pc = "return"
    /\ pc' = "done"
    /\ UNCHANGED <<inputs, q_values, batch, advantages, info, critic_info, i, calls, err>>

Next ==
    \/ CalculateQVals
    \/ Flatten
    \/ EstimateAdvantage
    \/ ActorUpdate
    \/ CriticUpdate
    \/ MergeCriticInfo
    \/ Return

Spec == Init /\ [][Next]_vars

\* update up to the return of _estimate_advantage on line 78.
NextEstimate ==
    \/ CalculateQVals
    \/ Flatten
    \/ EstimateAdvantage

SpecNum == InitNum /\ [][NextEstimate]_vars

SpecIso == InitIso /\ [][NextEstimate]_vars

---------------------------------------------------------------------------
(* Vocabulary of the properties.                                           *)

\* The batch size N and the trajectory that owns flat index k.
BatchSize == Len(Flat(rewards))
Lens == [tr \in 1..Len(rewards) |-> Len(rewards[tr])]
TrajOf(k) == CHOOSE tr \in 1..Len(rewards) : SumTo(Lens, tr - 1) < k /\ k <= SumTo(Lens, tr)

\* terminals has a 1 exactly at the last timestep of each trajectory.
WellFormed ==
    \A tr \in 1..Len(terminals) :
        \A t \in 1..Len(terminals[tr]) :
            terminals[tr][t] = (IF t = Len(terminals[tr]) THEN 1 ELSE 0)

\* The call of _estimate_advantage on line 76 is over, by return or by raise.
AdvantageStepOver ==
    /\ pc \notin {"calculate_q_vals", "flatten", "estimate_advantage"}
    /\ err # "ValueError"

\* _estimate_advantage has returned an array.
AdvantageReturned ==
    \/ pc \in {"actor_update", "critic_loop", "return", "done"}
    \/ pc = "error" /\ err = "UnboundLocalError"

\* Sum over t' = t..T-1 of gamma^(t'-t) * r_t' (1-based: from t up to Len(r)),
\* term by term.
RECURSIVE DiscountedSum(_, _, _, _)
DiscountedSum(gamma, r, t, upto) ==
    IF upto < t THEN Zero
    ELSE RAdd(DiscountedSum(gamma, r, t, upto - 1), RMul(RPow(gamma, upto - t), r[upto]))

\* The reward-to-go Q-values of the batch, flattened.
FlatRewardToGo == Flat([tr \in 1..Len(rewards) |-> _discounted_reward_to_go(self, rewards[tr])])

\* What update computes as advantages for another batch of the same shape:
\* lines 65-78, with the array type np.array gave q_values in this run.
AdvantagesFor(rews) ==
    LET q == _calculate_q_vals(self, rews)
        out == CHOOSE o \in FlattenQOutcomes(self, q) :
                   o.err = "none" /\ o.arr.dtype = q_values.dtype
    IN  _estimate_advantage(self, Flat(rews), out.arr, Flat(terminals), values)

AltRewardSet == {Zero, One, FromInt(2), FromInt(5)}

\* The batches that differ from this one in the rewards of trajectory b only.
RewardsChangedIn(b) ==
    {[rewards EXCEPT ![b] = alt] : alt \in [1..Len(rewards[b]) -> AltRewardSet]}

---------------------------------------------------------------------------
(* Properties.                                                             *)

\* C1: boundary isolation.  With well-formed terminals and at least two
\* trajectories, in every estimator configuration, changing the rewards of
\* one trajectory B (baseline values fixed) leaves the advantage at every
\* index of every other trajectory unchanged.
C1_BoundaryIsolation ==
    (AdvantageReturned /\ WellFormed /\ Len(rewards) >= 2) =>
        \A b \in 1..Len(rewards) :
            \A rews \in RewardsChangedIn(b) :
                LET res == AdvantagesFor(rews)
                IN  /\ res.err = "none"
                    /\ \A k \in 1..BatchSize :
                           TrajOf(k) # b => res.advantages.data[k] = advantages.data[k]

\* C1 witness: a GAE run over two trajectories in which changing B's rewards
\* does change B's own advantages.
C1_Witness ==
    /\ AdvantageReturned /\ WellFormed /\ Len(rewards) >= 2
    /\ self.critic # None /\ self.gae_lambda # None /\ self.gamma = Half
    /\ self.normalize_advantages
    /\ \E b \in 1..Len(rewards) :
           \E rews \in RewardsChangedIn(b) :
               \E k \in 1..BatchSize :
                   TrajOf(k) = b /\ AdvantagesFor(rews).advantages.data[k] # advantages.data[k]

\* C2: GAE with lambda = 1, normalisation off, well-formed terminals: the
\* advantage at every index is the reward-to-go Q-value minus V at that index.
C2_GaeLambdaOne ==
    (/\ AdvantageReturned /\ WellFormed
     /\ self.critic # None /\ self.gae_lambda # None /\ self.gae_lambda = One
     /\ ~self.normalize_advantages) =>
        /\ Len(advantages.data) = BatchSize
        /\ \A k \in 1..BatchSize :
               advantages.data[k] = RSub(FlatRewardToGo[k], values[k])

\* C2 witness: such a run with a trajectory of three steps, gamma = 1/2 and a
\* baseline that is not constant.
C2_Witness ==
    /\ AdvantageReturned /\ WellFormed
    /\ self.critic # None /\ self.gae_lambda # None /\ self.gae_lambda = One
    /\ ~self.normalize_advantages
    /\ self.gamma = Half
    /\ Len(rewards) = 1 /\ BatchSize = 3
    /\ values[1] # values[2]

\* C3: reward-to-go mode.  For every trajectory the list has the trajectory's
\* length, entry t is the sum over t' >= t of gamma^(t'-t) * r_t', entry 0 is
\* the full discounted return of _discounted_return, and a one-step
\* trajectory gets its reward.
C3_RewardToGo ==
    (pc = "flatten" /\ self.use_reward_to_go) =>
        \A tr \in 1..Len(rewards) :
            LET r == rewards[tr]
                T == Len(r)
            IN  /\ Len(q_values[tr]) = T
                /\ \A t \in 1..T : q_values[tr][t] = DiscountedSum(self.gamma, r, t, T)
                /\ q_values[tr][1] = _discounted_return(self, r)[1]
                /\ T = 1 => q_values[tr][1] = r[1]

\* C3 witness: reward-to-go of a three-step trajectory with gamma = 1/2.
C3_Witness ==
    /\ pc = "flatten" /\ self.use_reward_to_go
    /\ self.gamma = Half
    /\ Len(rewards) = 1 /\ Len(rewards[1]) = 3
    /\ rewards[1][1] # rewards[1][3]

\* C4: full-return mode.  After flattening, q_values holds exactly N scalar
\* entries, entry k being the discounted return G of k's trajectory.
C4_FullReturnFlat ==
    (~self.use_reward_to_go /\ pc \notin {"calculate_q_vals", "flatten"}) =>
        /\ err # "ValueError"
        /\ q_values.shape = <<BatchSize>>
        /\ q_values.dtype = "float"
        /\ \A k \in 1..BatchSize :
               q_values.data[k] =
                   DiscountedSum(self.gamma, rewards[TrajOf(k)], 1, Len(rewards[TrajOf(k)]))

\* C5: GAE sentinel.  In baseline + GAE mode with the last index of the batch
\* not terminal, the estimator returns a length-N array whose last entry is
\* rewards[N-1] + gamma * 0 - V(obs[N-1]).
C5_GaeSentinel ==
    (/\ self.critic # None /\ self.gae_lambda # None /\ self.use_reward_to_go
     /\ AdvantageStepOver
     /\ Flat(terminals)[BatchSize] = 0) =>
        /\ AdvantageReturned
        /\ Len(advantages.data) = BatchSize
        /\ advantages.data[BatchSize] =
               RSub(RAdd(Flat(rewards)[BatchSize], RMul(self.gamma, Zero)), values[BatchSize])

\* The un-normalised advantages of this run.
Unnormalized == RawAdvantage(self, batch.rewards, q_values, batch.terminals, values).advantages

C7_ZeroStepsSkip ==
    (/\ self.critic # None /\ self.baseline_gradient_steps = 0
     /\ self.use_reward_to_go /\ calls # <<>>) =>
        /\ err = "none"
        /\ Len(calls) = 1
        /\ pc = "done" => info = actor_metrics

\* The policy's metrics merged with those of the first k critic steps.
RECURSIVE MergedMetrics(_)
MergedMetrics(k) ==
    IF k = 0 THEN actor_metrics ELSE DictUpdate(MergedMetrics(k - 1), critic_metrics[k])

\* C8: metrics merging.  With a baseline and K >= 1 steps (here in
\* reward-to-go mode), the mapping returned is the policy's metrics merged
\* with the metrics of every one of the K critic steps, in step order.
C8_MetricsMerged ==
    (pc = "done" /\ self.critic # None /\ self.use_reward_to_go) =>
        info = MergedMetrics(self.baseline_gradient_steps)

\* C9 as stated: GAE without a baseline is refused at construction, so no
\* update computes advantages in that configuration.
C9_GaeNeedsBaseline ==
    ~(self.critic = None /\ self.gae_lambda # None /\ AdvantageReturned)

\* C9 amended: GAE without a baseline is accepted; _estimate_advantage then
\* ignores gae_lambda: it raises and returns what it does for the same call
\* with gae_lambda = None, and without normalisation the advantages are the
\* q_values.
C9_GaeIgnoredWithoutBaseline ==
    (self.critic = None /\ self.gae_lambda # None /\ AdvantageStepOver) =>
        LET plain == _estimate_advantage([self EXCEPT !.gae_lambda = None],
                                         batch.rewards, q_values, batch.terminals, values)
        IN  /\ err \in {plain.err, "UnboundLocalError"}
            /\ AdvantageReturned =>
                   /\ plain.err = "none"
                   /\ advantages = plain.advantages
                   /\ ~self.normalize_advantages => advantages = q_values

\* C9 witness: advantages computed with gae_lambda set and no critic.
C9_Witness ==
    /\ self.critic = None /\ self.gae_lambda # None /\ AdvantageReturned
    /\ self.use_reward_to_go /\ BatchSize = 3

\* The arrays np.array can give the flattened Q-values of this batch.
FlatQValues ==
    {o.arr : o \in {o \in FlattenQOutcomes(self, _calculate_q_vals(self, rewards)) :
                        o.err = "none"}}

ExpectedCriticCalls ==
    IF self.critic = None THEN 0 ELSE self.baseline_gradient_steps

\* C10: update's ordering.  The policy is updated exactly once, first, on the
\* flattened obs and actions and the advantages computed from the flattened
\* Q-values; every later call is a critic update on the flattened obs and the
\* un-normalised flattened Q-values; there are baseline_gradient_steps of them
\* with a baseline and none without, all made by the time update returns.
C10_UpdateOrdering ==
    /\ calls # <<>> =>
        /\ AdvantageReturned
        /\ calls[1].op = "actor.update"
        /\ calls[1].obs = Flat(ObsOf(rewards))
        /\ calls[1].actions = Flat(ActionsOf(rewards))
        /\ \E q \in FlatQValues :
               LET res == _estimate_advantage(self, Flat(rewards), q, Flat(terminals), values)
               IN  res.err = "none" /\ calls[1].advantages = res.advantages
    /\ \A c \in 2..Len(calls) :
        /\ calls[c].op = "critic.update"
        /\ calls[c].obs = Flat(ObsOf(rewards))
        /\ calls[c].targets \in FlatQValues
    /\ Len(calls) <= 1 + ExpectedCriticCalls
    /\ pc \in {"done", "return"} => Len(calls) = 1 + ExpectedCriticCalls

\* C10 witness: a returned update with normalised advantages and two critic steps.
C10_Witness ==
    /\ pc = "done"
    /\ self.critic # None /\ self.baseline_gradient_steps = 2
    /\ self.normalize_advantages
    /\ BatchSize = 3 /\ Len(rewards) = 2
    /\ Len(calls) = 3

====
